---- MODULE Spec2Model ----
(***************************************************************************)
(* Verification model of the expression / aggregation core:                *)
(*   - AggregatorCountFunction   (aggregator_count.rs)                     *)
(*   - DataArrayComparison       (data_array_comparison.rs)                *)
(*   - ExpressionAction          (plan_expression_action.rs)               *)
(* Each subsystem has its own specification (SpecCount, SpecDist, SpecCmp, *)
(* SpecExpr); the variables of the other subsystems stay at their idle     *)
(* value.                                                                  *)
(***************************************************************************)
EXTENDS Integers, Sequences, FiniteSets, TLC

VARIABLES
    acc,       \* the single AggregatorCountFunction {depth, arg, state}
    hist,      \* history of the calls made on acc (ghost)
    nodes,     \* distributed run: node -> AggregatorCountFunction
    inflight,  \* distributed run: partial-state vectors on the network
    dist,      \* distributed run: per-node progress and history (ghost)
    cmpIn,     \* comparison: the call's inputs {op, left, right}
    cmpOut,    \* comparison: the call's position and result
    exIn,      \* expression: the node and the schema
    exOut      \* expression: the last call and its result

vars == <<acc, hist, nodes, inflight, dist, cmpIn, cmpOut, exIn, exOut>>

\* ------------------------------------------------------------------ bounds
MaxRows == 5      \* rows of one block
MaxPartial == 1   \* largest count held by a slot of an incoming vector
MaxBatches == 3   \* accumulate calls of one run
MaxMerges == 1    \* merge calls on the single accumulator
NumSlots == 2     \* length of a partial-state vector
NumNodes == 3     \* nodes of the distributed run (node 1 is the merge root)
MaxLen == 2       \* rows of an array, replicate count of a constant
MaxNodes == 3     \* nodes of an expression tree

\* -------------------------------------------------------------- DataValue
Null == [tag |-> "Null", v |-> 0]
UInt64(n) == [tag |-> "UInt64", v |-> n]
Utf8Value(s) == [tag |-> "Utf8", v |-> s]

Ok(x) == [ok |-> TRUE, val |-> x]
Err(code) == [ok |-> FALSE, val |-> code]

\* data_value_arithmetic_op(Plus, left, right): Null is the identity, two
\* UInt64 add, anything else is an error.
ArithmeticPlus(left, right) ==
    IF left.tag = "Null" THEN Ok(right)
    ELSE IF right.tag = "Null" THEN Ok(left)
    ELSE IF left.tag = "UInt64" /\ right.tag = "UInt64"
         THEN Ok(UInt64(left.v + right.v))
    ELSE Err("BadDataValueType")

\* ------------------------------------------------ AggregatorCountFunction
\* A block: its number of rows, and how many of them hold a null in the
\* argument column.
Blocks == {b \in [rows : 0..MaxRows, nulls : 0..MaxRows] : b.nulls <= b.rows}

num_rows(block) == block.rows

HasNull(block) == block.nulls > 0

CountValid(block) == block.rows - block.nulls

\* The argument lists try_create is called with.
ArgLists == {<<>>, <<"a">>, <<"a", "b">>}

\* Variant of try_create: the count starts at 0.
try_create_at_zero(args) ==
    [depth |-> 0,
     arg |-> IF args = <<>> THEN "literal(1)" ELSE args[1],
     state |-> UInt64(0)]

try_create(args) ==
    [depth |-> 0,
     arg |-> IF args = <<>> THEN "literal(1)" ELSE args[1],
     state |-> Null]

set_depth(self, depth) == [self EXCEPT !.depth = depth]

\* accumulate/merge return the accumulator after the call and the call's
\* outcome: "ok", "err" (the ? operator returned early) or "panic".

\* Variant of accumulate: SQL COUNT(column), which skips the null values.
accumulate_skipping_nulls(self, block) ==
    LET r == ArithmeticPlus(self.state, UInt64(CountValid(block)))
    IN  IF r.ok THEN [self |-> [self EXCEPT !.state = r.val], outcome |-> "ok"]
        ELSE [self |-> self, outcome |-> "err"]

accumulate(self, block) ==
    LET rows == num_rows(block)
        r == ArithmeticPlus(self.state, UInt64(rows))
    IN  IF r.ok THEN [self |-> [self EXCEPT !.state = r.val], outcome |-> "ok"]
        ELSE [self |-> self, outcome |-> "err"]

accumulate_result(self) == <<self.state>>

\* states is 1-indexed here: the code's states[self.depth] is states[depth+1].

\* Variant of merge: reads slot 0 whatever the depth.
merge_first_slot(self, states) ==
    IF Len(states) = 0 THEN [self |-> self, outcome |-> "panic"]
    ELSE LET r == ArithmeticPlus(self.state, states[1])
         IN  IF r.ok THEN [self |-> [self EXCEPT !.state = r.val], outcome |-> "ok"]
             ELSE [self |-> self, outcome |-> "err"]

\* Variant of merge: takes the incoming partial state instead of adding it.
merge_overwriting(self, states) ==
    IF self.depth >= Len(states) THEN [self |-> self, outcome |-> "panic"]
    ELSE [self |-> [self EXCEPT !.state = states[self.depth + 1]], outcome |-> "ok"]

merge(self, states) ==
    IF self.depth >= Len(states) THEN [self |-> self, outcome |-> "panic"]
    ELSE LET val == states[self.depth + 1]
             r == ArithmeticPlus(self.state, val)
         IN  IF r.ok THEN [self |-> [self EXCEPT !.state = r.val], outcome |-> "ok"]
             ELSE [self |-> self, outcome |-> "err"]

merge_result(self) == self.state

\* The scalars a slot of a partial-state vector can hold: count partials and
\* a sibling aggregate's textual state.
SlotValues == {Null} \cup {UInt64(n) : n \in 0..MaxPartial} \cup {Utf8Value(<<"s">>)}

StateVectors == [1..NumSlots -> SlotValues]

\* Idle values of the other subsystems' variables.
IdleCount == /\ acc = try_create(<<>>)
             /\ hist = [op |-> "idle"]
IdleDist == /\ nodes = <<>>
            /\ inflight = {}
            /\ dist = [op |-> "idle"]
IdleCmp == /\ cmpIn = [op |-> "idle"]
           /\ cmpOut = [pc |-> "idle"]
IdleExpr == /\ exIn = [op |-> "idle"]
            /\ exOut = [pc |-> "idle"]

\* ------------------------------------------------- single accumulator run
InitCount ==
    /\ \E args \in ArgLists : acc = try_create(args)
    /\ hist = [op |-> "try_create", outcome |-> "ok", nFed |-> 0, rowsFed |-> 0,
               nullFed |-> FALSE, nMerged |-> 0, otherSlots |-> FALSE,
               setDepth |-> 0, panicked |-> FALSE,
               sumMerged |-> 0, countMerged |-> FALSE, foreignMerged |-> FALSE]
    /\ IdleDist /\ IdleCmp /\ IdleExpr

\* set_depth is called before the accumulator's first use.
SetDepth ==
    /\ hist.nFed = 0 /\ hist.nMerged = 0
    /\ \E d \in 0..NumSlots :
         /\ acc' = set_depth(acc, d)
         /\ hist' = [hist EXCEPT !.op = "set_depth", !.outcome = "ok",
                                 !.setDepth = d]
    /\ UNCHANGED <<nodes, inflight, dist, cmpIn, cmpOut, exIn, exOut>>

Accumulate ==
    /\ ~hist.panicked
    /\ hist.nFed < MaxBatches
    /\ \E block \in Blocks :
         LET r == accumulate(acc, block)
         IN  /\ acc' = r.self
             /\ hist' = [hist EXCEPT !.op = "accumulate", !.outcome = r.outcome,
                                     !.nFed = @ + 1,
                                     !.rowsFed = @ + num_rows(block),
                                     !.nullFed = @ \/ HasNull(block)]
    /\ UNCHANGED <<nodes, inflight, dist, cmpIn, cmpOut, exIn, exOut>>

\* What a merge reads at the accumulator's slot: whether it is of this kind,
\* and the count it holds.
ReadsTag(self, states, tag) ==
    self.depth < Len(states) /\ states[self.depth + 1].tag = tag

MergedCount(self, states) ==
    IF ReadsTag(self, states, "UInt64") THEN states[self.depth + 1].v ELSE 0

Merge ==
    /\ ~hist.panicked
    /\ hist.nMerged < MaxMerges
    /\ \E states \in StateVectors :
         LET r == merge(acc, states)
         IN  /\ acc' = r.self
             /\ hist' = [hist EXCEPT
                           !.op = "merge", !.outcome = r.outcome,
                           !.nMerged = @ + 1,
                           !.otherSlots = \E i \in 1..NumSlots :
                               i # acc.depth + 1 /\ states[i] # Null,
                           !.panicked = (r.outcome = "panic"),
                           !.sumMerged = @ + MergedCount(acc, states),
                           !.countMerged = @ \/ ReadsTag(acc, states, "UInt64"),
                           !.foreignMerged = @ \/ ReadsTag(acc, states, "Utf8")]
    /\ UNCHANGED <<nodes, inflight, dist, cmpIn, cmpOut, exIn, exOut>>

NextCount == SetDepth \/ Accumulate \/ Merge

SpecCount == InitCount /\ [][NextCount]_vars

\* C1: after a non-empty sequence of accumulate calls (and nothing else folded
\* in), merge_result is the sum of the blocks' row counts, whatever the
\* argument, the nulls in its column, and the order of the blocks.
C1_CountIsSumOfRows ==
    (hist.nFed > 0 /\ hist.nMerged = 0) => merge_result(acc) = UInt64(hist.rowsFed)

\* Row counts 3, 4, 5 in some order, with nulls in the argument column, give 12.
C1_Witness ==
    /\ hist.nFed = 3 /\ hist.nMerged = 0 /\ hist.rowsFed = 12
    /\ hist.op = "accumulate" /\ hist.nullFed /\ acc.arg = "a"
    /\ merge_result(acc) = UInt64(12)

\* C3: merge changes the state only through states[depth]: any vector gives
\* the accumulator the vector holding states[depth] in every slot gives, so two
\* vectors that agree at depth give the same accumulator; and depth is what
\* the last set_depth made it (0 from try_create), whatever accumulate and
\* merge calls came since.
C3_MergeReadsOnlyOwnSlot ==
    /\ acc.depth = hist.setDepth
    /\ accumulate_result(acc) = <<acc.state>> /\ merge_result(acc) = acc.state
    /\ \A block \in Blocks : accumulate(acc, block).self.depth = acc.depth
    /\ \A states \in StateVectors :
         /\ merge(acc, states).self.depth = acc.depth
         /\ acc.depth < NumSlots =>
              merge(acc, states) =
                merge(acc, [i \in 1..NumSlots |-> states[acc.depth + 1]])

\* A merge at slot 1 of a vector whose slot 0 holds a sibling's state.
C3_Witness ==
    /\ hist.op = "merge" /\ hist.outcome = "ok" /\ hist.otherSlots
    /\ hist.setDepth = 1 /\ acc.depth = 1 /\ hist.nFed > 0
    /\ acc.state = UInt64(hist.rowsFed + 1)

\* C12: as long as the slot the accumulator merges holds count partials (Null
\* or an integer), its state is Null until the first accumulate or the first
\* merge of an integer partial, and from then on the non-negative integer sum
\* of the row counts accumulated and the partials merged (0 after one block of
\* 0 rows); merge_result and accumulate_result return that state, so Null,
\* not 0, before any accumulate or merge.
C12_NullUntilFirstFold ==
    ~hist.foreignMerged
    => /\ merge_result(acc) = acc.state
       /\ accumulate_result(acc) = <<acc.state>>
       /\ (hist.nFed = 0 /\ hist.nMerged = 0) => acc.state = Null
       /\ acc.state = (IF hist.nFed = 0 /\ ~hist.countMerged THEN Null
                       ELSE UInt64(hist.rowsFed + hist.sumMerged))
       /\ acc.state # Null => acc.state.tag = "UInt64" /\ acc.state.v >= 0

\* One block of 0 rows accumulated and nothing else: the integer 0.
C12_Witness ==
    /\ hist.op = "accumulate" /\ hist.nFed = 1 /\ hist.rowsFed = 0
    /\ hist.nMerged = 0
    /\ merge_result(acc) = UInt64(0) /\ accumulate_result(acc) = <<UInt64(0)>>

\* ------------------------------------------------------- distributed run
Nodes == 1..NumNodes
Root == 1

\* The merge topologies: every node but the root ships its partial state to
\* one node of smaller number, so node 1 is the root of a tree.
Topologies == {p \in [Nodes -> Nodes] : p[Root] = Root /\ \A n \in Nodes \ {Root} : p[n] < n}

Children(n) == {c \in Nodes \ {Root} : dist.parent[c] = n}

\* The blocks the workers read: short ones, the nulls of the argument column
\* being left to the single-accumulator run.
DistBlocks == {b \in Blocks : b.nulls = 0 /\ b.rows <= MaxPartial}

\* What a sibling aggregate leaves in the other slots of a vector.
SiblingValues == {Null, Utf8Value(<<"s">>)}

\* The partial-state vector a node ships: its accumulate_result at its own
\* slot, a sibling aggregate's scalar in the other slots.
PartialVector(self, sibling) ==
    [i \in 1..NumSlots |-> IF i = self.depth + 1 THEN accumulate_result(self)[1]
                           ELSE sibling]

InitDist ==
    /\ \E d \in 0..(NumSlots - 1), p \in Topologies :
         /\ nodes = [n \in Nodes |-> set_depth(try_create(<<>>), d)]
         /\ dist = [op |-> "try_create", parent |-> p,
                    emitted |-> [n \in Nodes |-> FALSE],
                    merged |-> [n \in Nodes |-> {}],
                    nFed |-> 0, total |-> 0, nMerges |-> 0,
                    interleaved |-> FALSE]
    /\ inflight = {}
    /\ IdleCount /\ IdleCmp /\ IdleExpr

\* A node that has not shipped its partial state yet folds one more block.
DistAccumulate ==
    /\ dist.nFed < MaxBatches
    /\ \E n \in Nodes, block \in DistBlocks :
         /\ ~dist.emitted[n]
         /\ nodes' = [nodes EXCEPT ![n] = accumulate(nodes[n], block).self]
         /\ dist' = [dist EXCEPT !.op = "accumulate", !.nFed = @ + 1,
                                 !.total = @ + num_rows(block),
                                 !.interleaved = @ \/ dist.merged[n] # {}]
    /\ UNCHANGED <<inflight, acc, hist, cmpIn, cmpOut, exIn, exOut>>

\* A node other than the root ships its partial state, once, after it has
\* merged the partial states of all its children.
DistEmit ==
    /\ \E n \in Nodes \ {Root}, sibling \in SiblingValues :
         /\ ~dist.emitted[n]
         /\ dist.merged[n] = Children(n)
         /\ inflight' = inflight \cup
                {[from |-> n, to |-> dist.parent[n],
                  states |-> PartialVector(nodes[n], sibling)]}
         /\ dist' = [dist EXCEPT !.op = "accumulate_result", !.emitted[n] = TRUE]
    /\ UNCHANGED <<nodes, acc, hist, cmpIn, cmpOut, exIn, exOut>>

\* A node merges one of the vectors that reached it, in any arrival order.
DistMerge ==
    /\ \E msg \in inflight :
         /\ nodes' = [nodes EXCEPT ![msg.to] = merge(nodes[msg.to], msg.states).self]
         /\ inflight' = inflight \ {msg}
         /\ dist' = [dist EXCEPT !.op = "merge", !.nMerges = @ + 1,
                                 !.merged[msg.to] = @ \cup {msg.from}]
    /\ UNCHANGED <<acc, hist, cmpIn, cmpOut, exIn, exOut>>

NextDist == DistAccumulate \/ DistEmit \/ DistMerge

SpecDist == InitDist /\ [][NextDist]_vars

\* Every partial state has been shipped and merged exactly once.
AllMerged ==
    /\ \A n \in Nodes \ {Root} : dist.emitted[n]
    /\ inflight = {}

\* C2 as stated: once every partial-state vector is merged, the root's
\* merge_result is the total row count of all the blocks, for every split of
\* the blocks, every topology and every interleaving.
C2_Original == AllMerged => merge_result(nodes[Root]) = UInt64(dist.total)

\* C2 amended: the same when at least one block was read; with no block at
\* all the root's merge_result is Null.
C2_DistributedCountIsTotal ==
    AllMerged => merge_result(nodes[Root]) =
                   (IF dist.nFed > 0 THEN UInt64(dist.total) ELSE Null)

\* Three blocks split across the nodes, the root accumulating after a merge.
C2_Witness ==
    /\ AllMerged /\ dist.nFed = 3 /\ dist.total = 3 /\ dist.interleaved
    /\ dist.nMerges = NumNodes - 1
    /\ \E n \in Nodes \ {Root} : dist.parent[n] # Root
    /\ nodes[Root].state = UInt64(3)

\* ------------------------------------------------- DataArrayComparison
\* DataValueComparisonOperator
ComparisonOperators == {"Eq", "Lt", "LtEq", "Gt", "GtEq", "NotEq", "Like", "NotLike"}

NumericTypes == {"Int32", "Int64"}
DataTypes == NumericTypes \cup {"Utf8"}

\* An array element: valid with a value, or null.
Valid(v) == [valid |-> TRUE, v |-> v]
NullOf(dtype) == [valid |-> FALSE, v |-> IF dtype = "Utf8" THEN <<>> ELSE 0]

\* Texts are sequences of characters; % and _ are the LIKE wildcards.
IntValues == {1, 5, 10}
TextValues == {<<"a">>, <<"%">>, <<"a", "_">>}

ValuesOf(dtype) == IF dtype = "Utf8" THEN TextValues ELSE IntValues
ElementsOf(dtype) == {Valid(v) : v \in ValuesOf(dtype)} \cup {NullOf(dtype)}

\* DataColumn::Array(array) and DataColumn::Constant(scalar, rows); the
\* scalar of a Constant is the single element of vals.
Array(dtype, vals) == [shape |-> "Array", dtype |-> dtype, vals |-> vals, rows |-> Len(vals)]
Constant(dtype, scalar, rows) ==
    [shape |-> "Constant", dtype |-> dtype, vals |-> <<scalar>>, rows |-> rows]

DataColumns ==
    {Array(t, vals) : t \in DataTypes, vals \in {<<>>}} \cup
    UNION {UNION {{Array(t, vals) : vals \in [1..n -> ElementsOf(t)]} : n \in 1..MaxLen}
           : t \in DataTypes} \cup
    UNION {{Constant(t, Valid(v), n) : v \in ValuesOf(t), n \in 1..MaxLen}
           : t \in DataTypes}

\* data_type_coercion::equal_coercion: equal types unify to themselves, two
\* numeric types to the wider one, a textual type with nothing but itself.
equal_coercion(a, b) ==
    IF a = b THEN Ok(a)
    ELSE IF a \in NumericTypes /\ b \in NumericTypes THEN Ok("Int64")
    ELSE Err("TypeMismatch")

\* data_array_cast to the coercion type: a same-type copy or a widening,
\* which keeps every value.
data_array_cast(array, dtype) == [dtype |-> dtype, vals |-> array.vals]

\* DataValue::to_series_with_size
to_series_with_size(dtype, scalar, size) ==
    [dtype |-> dtype, vals |-> [i \in 1..size |-> scalar]]

\* DataValue::from_array(array, 0)
from_array(array, index) == array.vals[index + 1]

\* Byte order of the characters.
CharCode(c) == CASE c = "%" -> 37 [] c = "_" -> 95 [] c = "a" -> 97 [] OTHER -> 98

RECURSIVE TextLess(_, _)
TextLess(x, y) ==
    IF y = <<>> THEN FALSE
    ELSE IF x = <<>> THEN TRUE
    ELSE IF Head(x) = Head(y) THEN TextLess(Tail(x), Tail(y))
    ELSE CharCode(Head(x)) < CharCode(Head(y))

Less(dtype, x, y) == IF dtype = "Utf8" THEN TextLess(x, y) ELSE x < y

\* SQL LIKE: value LIKE pattern, % any sequence, _ any one character.
RECURSIVE like(_, _)
like(value, pattern) ==
    IF pattern = <<>> THEN value = <<>>
    ELSE IF Head(pattern) = "%"
         THEN like(value, Tail(pattern)) \/ (value # <<>> /\ like(Tail(value), pattern))
    ELSE IF value = <<>> THEN FALSE
    ELSE (Head(pattern) = "_" \/ Head(pattern) = Head(value))
         /\ like(Tail(value), Tail(pattern))

\* The arrow kernels (eq, lt, lt_eq, gt, gt_eq, neq, like_utf8, nlike_utf8)
\* on one pair of values: the left value against the right value or pattern.
Kernel(kernel, dtype, l, r) ==
    CASE kernel = "eq" -> l = r
      [] kernel = "neq" -> l # r
      [] kernel = "lt" -> Less(dtype, l, r)
      [] kernel = "lt_eq" -> Less(dtype, l, r) \/ l = r
      [] kernel = "gt" -> Less(dtype, r, l)
      [] kernel = "gt_eq" -> Less(dtype, r, l) \/ l = r
      [] kernel = "like_utf8" -> like(l, r)
      [] kernel = "nlike_utf8" -> ~like(l, r)

KernelElement(kernel, dtype, l, r) ==
    IF l.valid /\ r.valid THEN [valid |-> TRUE, v |-> Kernel(kernel, dtype, l.v, r.v)]
    ELSE [valid |-> FALSE, v |-> FALSE]

IsUtf8Kernel(kernel) == kernel \in {"like_utf8", "nlike_utf8"}

\* arrow_array_op! and arrow_array_utf8_op!: row for row over two arrays.
arrow_array_op(left_array, right_array, kernel) ==
    IF IsUtf8Kernel(kernel) /\ left_array.dtype # "Utf8" THEN Err("BadDataValueType")
    ELSE IF Len(left_array.vals) # Len(right_array.vals) THEN Err("ShapeError")
    ELSE Ok([i \in 1..Len(left_array.vals) |->
               KernelElement(kernel, left_array.dtype, left_array.vals[i],
                             right_array.vals[i])])

\* arrow_array_op_scalar! and arrow_array_utf8_op_scalar!: every row of the
\* array, on the left, against the scalar, on the right.
arrow_array_op_scalar(array, scalar, kernel) ==
    IF IsUtf8Kernel(kernel) /\ array.dtype # "Utf8" THEN Err("BadDataValueType")
    ELSE Ok([i \in 1..Len(array.vals) |->
               KernelElement(kernel, array.dtype, array.vals[i], scalar)])

\* The kernel each operator selects when the operands keep their sides.
KernelOf(op) ==
    CASE op = "Eq" -> "eq" [] op = "Lt" -> "lt" [] op = "LtEq" -> "lt_eq"
      [] op = "Gt" -> "gt" [] op = "GtEq" -> "gt_eq" [] op = "NotEq" -> "neq"
      [] op = "Like" -> "like_utf8" [] op = "NotLike" -> "nlike_utf8"

\* Variant of the Constant x Array table: the operator is not mirrored.
ConstantArrayKernelOf_unmirrored(op) == KernelOf(op)

\* The kernel each operator selects in the Constant x Array arm, where the
\* array goes to the kernel's left.
ConstantArrayKernelOf(op) ==
    CASE op = "Eq" -> "eq" [] op = "Lt" -> "gt" [] op = "LtEq" -> "gt_eq"
      [] op = "Gt" -> "lt" [] op = "GtEq" -> "lt_eq" [] op = "NotEq" -> "neq"
      [] op = "Like" -> "like_utf8" [] op = "NotLike" -> "nlike_utf8"

\* Variant of the Constant x Constant pattern: the count of the right operand.
ConstantConstantRows_from_right(left, right) == right.rows

\* (DataColumn::Constant(left_scala, rows), DataColumn::Constant(right_scalar, _)):
\* rows is the left operand's count, the right operand's is dropped.
ConstantConstantRows(left, right) == left.rows

data_array_comparison_op(op, left, right) ==
    CASE left.shape = "Array" /\ right.shape = "Array" ->
           LET coercion_type == equal_coercion(left.dtype, right.dtype)
           IN  IF ~coercion_type.ok THEN coercion_type
               ELSE LET left_array == data_array_cast(left, coercion_type.val)
                        right_array == data_array_cast(right, coercion_type.val)
                    IN  arrow_array_op(left_array, right_array, KernelOf(op))
      [] left.shape = "Array" /\ right.shape = "Constant" ->
           LET coercion_type == equal_coercion(left.dtype, right.dtype)
           IN  IF ~coercion_type.ok THEN coercion_type
               ELSE LET left_array == data_array_cast(left, coercion_type.val)
                        right_array ==
                            data_array_cast(
                                to_series_with_size(right.dtype, right.vals[1], 1),
                                coercion_type.val)
                        scalar == from_array(right_array, 0)
                    IN  arrow_array_op_scalar(left_array, scalar, KernelOf(op))
      [] left.shape = "Constant" /\ right.shape = "Array" ->
           LET coercion_type == equal_coercion(right.dtype, left.dtype)
           IN  IF ~coercion_type.ok THEN coercion_type
               ELSE LET left_array ==
                            data_array_cast(
                                to_series_with_size(left.dtype, left.vals[1], 1),
                                coercion_type.val)
                        right_array == data_array_cast(right, coercion_type.val)
                        scalar == from_array(left_array, 0)
                    IN  arrow_array_op_scalar(right_array, scalar,
                                              ConstantArrayKernelOf(op))
      [] left.shape = "Constant" /\ right.shape = "Constant" ->
           LET coercion_type == equal_coercion(left.dtype, right.dtype)
               rows == ConstantConstantRows(left, right)
           IN  IF ~coercion_type.ok THEN coercion_type
               ELSE LET left_array ==
                            data_array_cast(
                                to_series_with_size(left.dtype, left.vals[1], rows),
                                coercion_type.val)
                        right_array ==
                            data_array_cast(
                                to_series_with_size(right.dtype, right.vals[1], rows),
                                coercion_type.val)
                    IN  arrow_array_op(left_array, right_array, KernelOf(op))

InitCmp ==
    /\ \E op \in ComparisonOperators, left \in DataColumns, right \in DataColumns :
         cmpIn = [op |-> op, left |-> left, right |-> right]
    /\ cmpOut = [pc |-> "call"]
    /\ IdleCount /\ IdleDist /\ IdleExpr

Compare ==
    /\ cmpOut.pc = "call"
    /\ cmpOut' = [pc |-> "done",
                  result |-> data_array_comparison_op(cmpIn.op, cmpIn.left, cmpIn.right)]
    /\ UNCHANGED <<cmpIn, acc, hist, nodes, inflight, dist, exIn, exOut>>

NextCmp == Compare

SpecCmp == InitCmp /\ [][NextCmp]_vars

\* The operator that states the same relation with the operands swapped.
SwappedOperator(op) ==
    CASE op = "Lt" -> "Gt" [] op = "Gt" -> "Lt" [] op = "LtEq" -> "GtEq"
      [] op = "GtEq" -> "LtEq" [] OTHER -> op

\* C4: for Eq, NotEq, Lt, LtEq, Gt, GtEq and two columns that are not both
\* constants, have the same row count and coercible types, the comparison
\* succeeds with one row per input row and equals, row for row, the swapped
\* operator applied to the swapped columns.
C4_OperandSwapLaw ==
    (/\ cmpOut.pc = "done"
     /\ cmpIn.op \in {"Eq", "NotEq", "Lt", "LtEq", "Gt", "GtEq"}
     /\ ~(cmpIn.left.shape = "Constant" /\ cmpIn.right.shape = "Constant")
     /\ cmpIn.left.rows = cmpIn.right.rows
     /\ equal_coercion(cmpIn.left.dtype, cmpIn.right.dtype).ok)
    => /\ cmpOut.result.ok
       /\ Len(cmpOut.result.val) = cmpIn.left.rows
       /\ cmpOut.result =
            data_array_comparison_op(SwappedOperator(cmpIn.op), cmpIn.right, cmpIn.left)

\* compare(Lt, Constant(5), Array([1, 10])) = [false, true].
C4_Witness ==
    /\ cmpOut.pc = "done"
    /\ cmpIn = [op |-> "Lt", left |-> Constant("Int64", Valid(5), 2),
                right |-> Array("Int32", <<Valid(1), Valid(10)>>)]
    /\ cmpOut.result = Ok(<<Valid(FALSE), Valid(TRUE)>>)
    /\ data_array_comparison_op("Gt", cmpIn.right, cmpIn.left) = cmpOut.result

\* C5: with a textual constant on the left and a textual array on the right,
\* every operator, Like and NotLike included, gives what the Array x Array
\* comparison gives with the constant materialized to the array's length on
\* the left (row i is "c op x[i]").
C5_ConstantArrayKeepsOperator ==
    (/\ cmpOut.pc = "done"
     /\ cmpIn.left.shape = "Constant" /\ cmpIn.left.dtype = "Utf8"
     /\ cmpIn.right.shape = "Array" /\ cmpIn.right.dtype = "Utf8")
    => cmpOut.result =
         data_array_comparison_op(
             cmpIn.op,
             Array("Utf8", [i \in 1..cmpIn.right.rows |-> cmpIn.left.vals[1]]),
             cmpIn.right)

\* C11: the comparison of two constants of coercible types (textual ones for
\* Like and NotLike) has as many rows as the left constant's count, every row
\* being the operator applied to the two scalars, and is the same whatever
\* the right constant's count is.
C11_ConstantConstantUsesLeftCount ==
    (/\ cmpOut.pc = "done"
     /\ cmpIn.left.shape = "Constant" /\ cmpIn.right.shape = "Constant"
     /\ equal_coercion(cmpIn.left.dtype, cmpIn.right.dtype).ok
     /\ cmpIn.op \in {"Like", "NotLike"} => cmpIn.left.dtype = "Utf8")
    => /\ cmpOut.result.ok
       /\ Len(cmpOut.result.val) = cmpIn.left.rows
       /\ \A i \in 1..Len(cmpOut.result.val) :
            cmpOut.result.val[i] =
              Valid(Kernel(KernelOf(cmpIn.op),
                           equal_coercion(cmpIn.left.dtype, cmpIn.right.dtype).val,
                           cmpIn.left.vals[1].v, cmpIn.right.vals[1].v))
       /\ \A n \in 0..(MaxLen + 1) :
            cmpOut.result =
              data_array_comparison_op(
                  cmpIn.op, cmpIn.left,
                  Constant(cmpIn.right.dtype, cmpIn.right.vals[1], n))

\* Constant(5, 2) < Constant(10, 1): two rows, both true.
C11_Witness ==
    /\ cmpOut.pc = "done"
    /\ cmpIn = [op |-> "Lt", left |-> Constant("Int32", Valid(5), 2),
                right |-> Constant("Int64", Valid(10), 1)]
    /\ cmpOut.result = Ok(<<Valid(TRUE), Valid(TRUE)>>)

\* ----------------------------------------------------- ExpressionAction
\* enum ExpressionAction. Every node has the same fields: name is the alias,
\* the column name, the literal's text or the function's op; args holds the
\* children (the inner expression of Alias, Sort and Cast; the arguments of a
\* function); data_type is the literal's or the cast's type.
Node(variant, name, args, data_type, asc, nulls_first) ==
    [variant |-> variant, name |-> name, args |-> args, data_type |-> data_type,
     asc |-> asc, nulls_first |-> nulls_first]

Alias(name, expr) == Node("Alias", name, <<expr>>, "", FALSE, FALSE)
Column(name) == Node("Column", name, <<>>, "", FALSE, FALSE)
Literal(text, data_type) == Node("Literal", text, <<>>, data_type, FALSE, FALSE)
ScalarFunction(op, args) == Node("ScalarFunction", op, args, "", FALSE, FALSE)
AggregateFunction(op, args) == Node("AggregateFunction", op, args, "", FALSE, FALSE)
Sort(expr, asc, nulls_first) == Node("Sort", "", <<expr>>, "", asc, nulls_first)
Wildcard == Node("Wildcard", "", <<>>, "", FALSE, FALSE)
Cast(expr, data_type) == Node("Cast", "", <<expr>>, data_type, FALSE, FALSE)

\* The trees the operations are called on: all trees of at most MaxNodes
\* nodes over these leaves, names and types.
Leaves == {Column("x"), Column("y"), Literal("1", "UInt64"), Wildcard}
ScalarOps == {"abs", "nosuch"}
AggregateOps == {"count", "nosuch"}
CastTypes == {"Int64", "Utf8"}
SortFlags == {<<TRUE, FALSE>>, <<FALSE, TRUE>>}

RECURSIVE ExprsOfSize(_), ArgsOfSize(_)
ExprsOfSize(n) ==
    (IF n = 1 THEN Leaves
     ELSE LET inner == ExprsOfSize(n - 1)
          IN  {Alias("e", e) : e \in inner} \cup
              {Sort(e, f[1], f[2]) : e \in inner, f \in SortFlags} \cup
              {Cast(e, t) : e \in inner, t \in CastTypes}) \cup
    (LET lists == ArgsOfSize(n - 1)
     IN  {ScalarFunction(op, a) : op \in ScalarOps, a \in lists} \cup
         {AggregateFunction(op, a) : op \in AggregateOps, a \in lists})

ArgsOfSize(total) ==
    IF total = 0 THEN {<<>>}
    ELSE UNION {{<<e>> \o rest : e \in ExprsOfSize(k), rest \in ArgsOfSize(total - k)}
                : k \in 1..total}

Exprs == UNION {ExprsOfSize(n) : n \in 1..MaxNodes}

\* DataSchema: the ordered fields; y is absent from the first two.
Field(name, data_type) == [name |-> name, data_type |-> data_type]
Schemas == {<<>>, <<Field("x", "Int64")>>, <<Field("x", "Utf8"), Field("y", "Int64")>>}

HasField(schema, name) == \E i \in 1..Len(schema) : schema[i].name = name

\* DataSchema::field_with_name
field_with_name(schema, name) ==
    IF HasField(schema, name)
    THEN Ok(schema[CHOOSE i \in 1..Len(schema) :
                      /\ schema[i].name = name
                      /\ \A j \in 1..(i - 1) : schema[j].name # name])
    ELSE Err("UnknownColumn")

\* FunctionFactory::get and AggregateFunctionFactory::get
FunctionFactory_get(op) == IF op = "abs" THEN Ok(op) ELSE Err("UnknownFunction")
AggregateFunctionFactory_get(op) == IF op = "count" THEN Ok(op) ELSE Err("UnknownFunction")

\* func.return_type(&arg_types) of the registered functions.
return_type(func, arg_types) ==
    IF func = "count" THEN Ok("UInt64")
    ELSE IF Len(arg_types) = 1 THEN Ok(arg_types[1])
    ELSE Err("NumberArgumentsNotMatch")

\* impl fmt::Debug: the text as a sequence of pieces.
RECURSIVE fmt(_), fmt_args(_)
fmt(self) ==
    CASE self.variant = "Alias" -> fmt(self.args[1]) \o <<" as ", self.name>>
      [] self.variant = "Column" -> <<self.name>>
      [] self.variant = "Literal" -> <<self.name>>
      [] self.variant = "ScalarFunction" ->
           <<self.name, "(">> \o fmt_args(self.args) \o <<")">>
      [] self.variant = "AggregateFunction" ->
           <<self.name, "(">> \o fmt_args(self.args) \o <<")">>
      [] self.variant = "Sort" -> fmt(self.args[1])
      [] self.variant = "Wildcard" -> <<"*">>
      [] self.variant = "Cast" ->
           <<"cast(">> \o fmt(self.args[1]) \o <<" as ", self.data_type, ")">>

\* {:?} of args: Vec<ExpressionAction>, the Debug list "[a, b]".
RECURSIVE fmt_entries(_)
fmt_entries(args) ==
    IF args = <<>> THEN <<>>
    ELSE IF Len(args) = 1 THEN fmt(args[1])
    ELSE fmt(args[1]) \o <<", ">> \o fmt_entries(Tail(args))

fmt_args(args) == <<"[">> \o fmt_entries(args) \o <<"]">>

column_name(self) ==
    IF self.variant = "Alias" THEN <<self.name>> ELSE fmt(self)

\* The outcome of to_data_type with the calls it made: every to_data_type
\* entered, every registry lookup and every return-type rule applied.
Traced(result, log) == [ok |-> result.ok, val |-> result.val, log |-> log]
Event(ev, node) == [ev |-> ev, node |-> node]

RECURSIVE to_data_type(_, _), arg_types(_, _)

\* Variant of the Column arm: an absent column resolves to the Null type.
ColumnArm_defaulting_to_null(self, input_schema) ==
    LET field == field_with_name(input_schema, self.name)
    IN  IF field.ok THEN Ok(field.val.data_type) ELSE Ok("Null")

\* Ok(input_schema.field_with_name(s)?.data_type().clone())
ColumnArm(self, input_schema) ==
    LET field == field_with_name(input_schema, self.name)
    IN  IF field.ok THEN Ok(field.val.data_type) ELSE field

\* Variant of the Wildcard arm: the wildcard has a type.
WildcardArm_typed(self) == Ok("Null")

\* Err(ErrorCodes::IllegalDataType(..))
WildcardArm(self) == Err("IllegalDataType")

\* Variant of the Cast arm: the inner expression must resolve first.
CastArm_resolving_inner(self, input_schema) ==
    LET inner == to_data_type(self.args[1], input_schema)
    IN  IF inner.ok THEN Traced(Ok(self.data_type), inner.log) ELSE inner

\* Ok(data_type.clone())
CastArm(self, input_schema) == Traced(Ok(self.data_type), <<>>)

\* for arg in args { arg_types.push(arg.to_data_type(input_schema)?) }
arg_types(args, input_schema) ==
    IF args = <<>> THEN Traced(Ok(<<>>), <<>>)
    ELSE LET first == to_data_type(args[1], input_schema)
         IN  IF ~first.ok THEN first
             ELSE LET rest == arg_types(Tail(args), input_schema)
                  IN  IF ~rest.ok THEN Traced(rest, first.log \o rest.log)
                      ELSE Traced(Ok(<<first.val>> \o rest.val), first.log \o rest.log)

\* The ScalarFunction and AggregateFunction arms: the argument types first,
\* then the registry lookup (func is its outcome), then the return-type rule.
FunctionArm(self, input_schema, func) ==
    LET types == arg_types(self.args, input_schema)
    IN  IF ~types.ok THEN types
        ELSE IF ~func.ok THEN Traced(func, types.log \o <<Event("get", self)>>)
        ELSE Traced(return_type(func.val, types.val),
                    types.log \o <<Event("get", self), Event("return_type", self)>>)

to_data_type(self, input_schema) ==
    LET arm ==
          CASE self.variant = "Alias" -> to_data_type(self.args[1], input_schema)
            [] self.variant = "Column" -> Traced(ColumnArm(self, input_schema), <<>>)
            [] self.variant = "Literal" -> Traced(Ok(self.data_type), <<>>)
            [] self.variant = "ScalarFunction" ->
                 FunctionArm(self, input_schema, FunctionFactory_get(self.name))
            [] self.variant = "AggregateFunction" ->
                 FunctionArm(self, input_schema, AggregateFunctionFactory_get(self.name))
            [] self.variant = "Wildcard" -> Traced(WildcardArm(self), <<>>)
            [] self.variant = "Cast" -> CastArm(self, input_schema)
            [] self.variant = "Sort" -> to_data_type(self.args[1], input_schema)
    IN  Traced(arm, <<Event("to_data_type", self)>> \o arm.log)

\* Variant of to_aggregate_function: looks through one Alias or Sort.
to_aggregate_function_unwrapping(self) ==
    IF self.variant = "AggregateFunction"
    THEN LET func == AggregateFunctionFactory_get(self.name)
         IN  IF ~func.ok THEN func
             ELSE Ok([func |-> func.val,
                      args |-> [i \in 1..Len(self.args) |-> column_name(self.args[i])]])
    ELSE IF self.variant \in {"Alias", "Sort"} /\ self.args[1].variant = "AggregateFunction"
    THEN Ok([func |-> self.args[1].name,
             args |-> [i \in 1..Len(self.args[1].args) |->
                         column_name(self.args[1].args[i])]])
    ELSE Err("IllegalAggregateExp")

to_aggregate_function(self) ==
    IF self.variant = "AggregateFunction"
    THEN LET func == AggregateFunctionFactory_get(self.name)
         IN  IF ~func.ok THEN func
             ELSE Ok([func |-> func.val,
                      args |-> [i \in 1..Len(self.args) |-> column_name(self.args[i])]])
    ELSE Err("IllegalAggregateExp")

InitExpr ==
    /\ \E expr \in Exprs, schema \in Schemas : exIn = [expr |-> expr, schema |-> schema]
    /\ exOut = [pc |-> "call"]
    /\ IdleCount /\ IdleDist /\ IdleCmp

ColumnName ==
    /\ exOut.pc = "call"
    /\ exOut' = [pc |-> "done", call |-> "column_name", result |-> column_name(exIn.expr)]
    /\ UNCHANGED <<exIn, acc, hist, nodes, inflight, dist, cmpIn, cmpOut>>

ToDataType ==
    /\ exOut.pc = "call"
    /\ exOut' = [pc |-> "done", call |-> "to_data_type",
                 result |-> to_data_type(exIn.expr, exIn.schema)]
    /\ UNCHANGED <<exIn, acc, hist, nodes, inflight, dist, cmpIn, cmpOut>>

ToAggregateFunction ==
    /\ exOut.pc = "call"
    /\ exOut' = [pc |-> "done", call |-> "to_aggregate_function",
                 result |-> to_aggregate_function(exIn.expr)]
    /\ UNCHANGED <<exIn, acc, hist, nodes, inflight, dist, cmpIn, cmpOut>>

NextExpr == ColumnName \/ ToDataType \/ ToAggregateFunction

SpecExpr == InitExpr /\ [][NextExpr]_vars

\* The rendering grammar: op, "(", the renderings of the arguments joined by
\* commas, ")"; Alias "e as a", Sort its inner expression, Cast "cast(e as t)".
RECURSIVE Rendering(_), CommaJoined(_)
Rendering(e) ==
    CASE e.variant = "Alias" -> Rendering(e.args[1]) \o <<" as ", e.name>>
      [] e.variant \in {"Column", "Literal"} -> <<e.name>>
      [] e.variant \in {"ScalarFunction", "AggregateFunction"} ->
           <<e.name, "(">> \o CommaJoined(e.args) \o <<")">>
      [] e.variant = "Sort" -> Rendering(e.args[1])
      [] e.variant = "Wildcard" -> <<"*">>
      [] e.variant = "Cast" ->
           <<"cast(">> \o Rendering(e.args[1]) \o <<" as ", e.data_type, ")">>

CommaJoined(args) ==
    IF args = <<>> THEN <<>>
    ELSE IF Len(args) = 1 THEN Rendering(args[1])
    ELSE Rendering(args[1]) \o <<", ">> \o CommaJoined(Tail(args))

\* C6: column_name of an Alias is the alias; of a ScalarFunction or an
\* AggregateFunction it is op, one "(", the comma-joined renderings of the
\* arguments, one ")", and nothing else.
C6_ColumnNameGrammar ==
    (exOut.pc = "done" /\ exOut.call = "column_name")
    => /\ exIn.expr.variant = "Alias" => exOut.result = <<exIn.expr.name>>
       /\ exIn.expr.variant \in {"ScalarFunction", "AggregateFunction"}
            => exOut.result = Rendering(exIn.expr)

\* C7: to_data_type of a Cast is the cast's type whatever the inner expression
\* and the schema, and it enters no other node and consults no registry.
C7_CastReturnsItsType ==
    (exOut.pc = "done" /\ exOut.call = "to_data_type" /\ exIn.expr.variant = "Cast")
    => /\ exOut.result.ok
       /\ exOut.result.val = exIn.expr.data_type
       /\ exOut.result.log = <<Event("to_data_type", exIn.expr)>>

\* A Cast of a column the schema lacks.
C7_Witness ==
    /\ exOut.pc = "done" /\ exOut.call = "to_data_type"
    /\ exIn.expr = Cast(Column("y"), "Utf8") /\ exIn.schema = <<Field("x", "Int64")>>
    /\ ~to_data_type(Column("y"), exIn.schema).ok
    /\ exOut.result.ok /\ exOut.result.val = "Utf8"

IsMissingColumn(e, schema) == e.variant = "Column" /\ ~HasField(schema, e.name)

\* C8: whenever to_data_type enters a Column the schema lacks (which it does
\* through Alias, Sort and function arguments, never below a Cast), the call
\* fails with the unknown-column error and that Column is the last thing it
\* did: no later argument, no registry lookup, no return-type rule.
C8_UnknownColumnFails ==
    (exOut.pc = "done" /\ exOut.call = "to_data_type")
    => \A i \in 1..Len(exOut.result.log) :
         (/\ exOut.result.log[i].ev = "to_data_type"
          /\ IsMissingColumn(exOut.result.log[i].node, exIn.schema))
         => /\ ~exOut.result.ok
            /\ exOut.result.val = "UnknownColumn"
            /\ i = Len(exOut.result.log)

\* An unregistered function whose first argument is a column the schema
\* lacks and whose second argument is a Wildcard.
C8_Witness ==
    /\ exOut.pc = "done" /\ exOut.call = "to_data_type"
    /\ exIn.expr = ScalarFunction("nosuch", <<Column("y"), Wildcard>>)
    /\ exIn.schema = <<Field("x", "Int64")>>
    /\ exOut.result.val = "UnknownColumn" /\ ~exOut.result.ok
    /\ Len(exOut.result.log) = 2

\* C9: to_aggregate_function fails with the not-an-aggregate error on every
\* node that is not an AggregateFunction, also on an Alias or Sort around one;
\* on an AggregateFunction with a registered op it returns that function and
\* column_name of each argument, in argument order.
C9_OnlyAggregateFunctions ==
    (exOut.pc = "done" /\ exOut.call = "to_aggregate_function")
    => /\ exIn.expr.variant # "AggregateFunction"
            => exOut.result = Err("IllegalAggregateExp")
       /\ (exIn.expr.variant = "AggregateFunction" /\ exIn.expr.name = "count")
            => /\ exOut.result.ok
               /\ exOut.result.val.func = "count"
               /\ Len(exOut.result.val.args) = Len(exIn.expr.args)
               /\ \A i \in 1..Len(exIn.expr.args) :
                    exOut.result.val.args[i] = column_name(exIn.expr.args[i])

\* An Alias directly around count(x).
C9_Witness ==
    /\ exOut.pc = "done" /\ exOut.call = "to_aggregate_function"
    /\ exIn.expr = Alias("e", AggregateFunction("count", <<Column("x")>>))
    /\ exOut.result = Err("IllegalAggregateExp")
    /\ to_aggregate_function(exIn.expr.args[1]).ok

\* C10: whenever to_data_type enters a Wildcard (at the top, or through Alias,
\* Sort or a function argument), under any schema, the call fails with the
\* illegal-expression error (ErrorCodes::IllegalDataType) raised there.
C10_WildcardFails ==
    (exOut.pc = "done" /\ exOut.call = "to_data_type")
    => \A i \in 1..Len(exOut.result.log) :
         (/\ exOut.result.log[i].ev = "to_data_type"
          /\ exOut.result.log[i].node.variant = "Wildcard")
         => /\ ~exOut.result.ok
            /\ exOut.result.val = "IllegalDataType"
            /\ i = Len(exOut.result.log)

\* A Wildcard as the second argument of abs, behind a resolvable column.
C10_Witness ==
    /\ exOut.pc = "done" /\ exOut.call = "to_data_type"
    /\ exIn.expr = ScalarFunction("abs", <<Column("x"), Wildcard>>)
    /\ exIn.schema = <<Field("x", "Int64")>>
    /\ ~exOut.result.ok /\ exOut.result.val = "IllegalDataType"
    /\ Len(exOut.result.log) = 3

====
